---- MODULE Spec2Model ----
(***************************************************************************)
(* Retrieval pipeline of the RAG backend (src/ai-backend/rag_main.py and   *)
(* its serverless twin src/api/index.py): the chunker, the SQLite document *)
(* store behind one shared connection, and the cosine-similarity search.   *)
(*                                                                         *)
(* A text is a sequence of one-character strings.  The chunker is a pure   *)
(* function and is exercised by SpecChunk; the store and the retriever are *)
(* exercised by Spec.  The other specifications exercise one part each:    *)
(* SpecConcurrent overlapping uploads, SpecSemantic and SpecPages the      *)
(* advanced processor, SpecChat the chat endpoint, SpecRepeated repeated   *)
(* chunk_text calls, SpecContext, SpecModel and SpecKeyword the chat       *)
(* models, SpecDatabase get_database of the serverless variant.            *)
(***************************************************************************)
EXTENDS Integers, Sequences, FiniteSets, TLC

VARIABLES
    call,             \* a function exercised on its own: the arguments of the call
    ret,              \* its outcome, or NotCalled
    documents,        \* rows of table documents, in rowid order, as the connection sees them
    document_chunks,  \* rows of table document_chunks, in rowid order, as the connection sees them
    committed,        \* how many rows of each table the last commit made durable
    clock,            \* the wall clock, in whole seconds
    uploads,          \* number of upload requests handled so far
    failed,           \* upload numbers whose save_document_to_db raised
    response,         \* what the last request returned to its caller
    requests,         \* upload requests that have started, with how far each one got
    files,            \* paths of the temporary files in the uploads directory
    chunked,          \* the chunk_text calls made on their own so far, each with what it returned
    chat_model,       \* the DocumentAwareChatModel object of the in-process variants
    db_connection,    \* the global db_connection of the serverless variant
    tables,           \* the tables of the database file of the serverless variant
    exchanges         \* every exchange a chat model has recorded since it was constructed

chunkVars == <<call, ret>>
storeVars == <<documents, document_chunks, committed, clock, uploads, failed, response>>
vars == <<call, ret, documents, document_chunks, committed, clock, uploads, failed, response,
          requests, files, chunked, chat_model, db_connection, tables, exchanges>>

(***************************************************************************)
(* Bounds of the model                                                     *)
(***************************************************************************)
MaxTextLen == 7      \* characters of a text handed to the chunker
MaxChunkSize == 4    \* chunk_size values tried: 1..MaxChunkSize
MaxOverlap == 5      \* overlap values tried: 0..MaxOverlap

Min(S) == CHOOSE x \in S : \A y \in S : x <= y
Max(S) == CHOOSE x \in S : \A y \in S : y <= x
Least(a, b) == IF a <= b THEN a ELSE b

(***************************************************************************)
(* Python str helpers                                                      *)
(***************************************************************************)
Whitespace == {" ", "\n"}
Letters == {"a"}
Alphabet == Letters \cup Whitespace

\* s.strip()
strip(s) ==
    LET solid == {i \in DOMAIN s : s[i] \notin Whitespace}
    IN  IF solid = {} THEN <<>> ELSE SubSeq(s, Min(solid), Max(solid))

\* s.split(): the maximal runs of non-whitespace characters, in order.
\* split_between gives the runs of s[lo..hi]: those of its two halves, the run that
\* crosses the middle put together again.
RECURSIVE split_between(_, _, _)
split_between(s, lo, hi) ==
    IF lo > hi THEN <<>>
    ELSE IF lo = hi THEN (IF s[lo] \in Whitespace THEN <<>> ELSE <<<<s[lo]>>>>)
    ELSE LET mid == (lo + hi) \div 2
             left == split_between(s, lo, mid)
             right == split_between(s, mid + 1, hi)
         IN  IF s[mid] \notin Whitespace /\ s[mid + 1] \notin Whitespace
             THEN SubSeq(left, 1, Len(left) - 1)
                      \o <<left[Len(left)] \o right[1]>> \o Tail(right)
             ELSE left \o right

split(s) == split_between(s, 1, Len(s))

\* ' '.join(words); join_between joins words[lo..hi]
RECURSIVE join_between(_, _, _)
join_between(words, lo, hi) ==
    IF lo > hi THEN <<>>
    ELSE IF lo = hi THEN words[lo]
    ELSE LET mid == (lo + hi) \div 2
         IN  join_between(words, lo, mid) \o <<" ">> \o join_between(words, mid + 1, hi)

join(words) == join_between(words, 1, Len(words))

\* words[i:j] for 0 <= i <= j
slice(words, i, j) == SubSeq(words, i + 1, Least(j, Len(words)))

\* list(range(start, stop, step)) for step /= 0
range(start, stop, step) ==
    LET n == IF step > 0
             THEN (IF stop <= start THEN 0 ELSE (stop - start + step - 1) \div step)
             ELSE (IF stop >= start THEN 0 ELSE (start - stop - step - 1) \div (0 - step))
    IN  [k \in 1..n |-> start + (k - 1) * step]

(***************************************************************************)
(* chunk_text                                                              *)
(***************************************************************************)
\* faulty variant: the window advances by chunk_size, the overlap is forgotten
chunk_text_no_overlap(text, chunk_size, overlap) ==
    LET words == split(text)
        starts == range(0, Len(words), chunk_size)
        chunk(k) == join(slice(words, starts[k], starts[k] + chunk_size))
    IN  [raised |-> "none", chunks |-> [k \in 1..Len(starts) |-> strip(chunk(k))]]

\* faulty variant: the window grows with the number of stored documents, as it
\* would with a module-level setting that uploads adjust
chunk_text_sized_by_store(text, chunk_size, overlap) ==
    LET words == split(text)
        size == chunk_size + Len(documents)
        starts == range(0, Len(words), size - overlap)
        chunk(k) == join(slice(words, starts[k], starts[k] + size))
        every == [k \in 1..Len(starts) |-> strip(chunk(k))]
        kept(c) == c /= <<>>
    IN  IF size - overlap = 0
        THEN [raised |-> "ValueError", chunks |-> <<>>]
        ELSE [raised |-> "none", chunks |-> SelectSeq(every, kept)]

\* range() raises ValueError for a zero step and is empty for a negative one
chunk_text(text, chunk_size, overlap) ==
    LET words == split(text)
        step == chunk_size - overlap
    IN  IF step = 0
        THEN [raised |-> "ValueError", chunks |-> <<>>]
        ELSE LET starts == range(0, Len(words), step)
                 chunk(k) == join(slice(words, starts[k], starts[k] + chunk_size))
                 every == [k \in 1..Len(starts) |-> strip(chunk(k))]
                 kept(c) == c /= <<>>
             IN  [raised |-> "none", chunks |-> SelectSeq(every, kept)]

(***************************************************************************)
(* Bounds of the store model                                               *)
(***************************************************************************)
MaxUploads == 2      \* upload requests handled in one run
MaxPages == 2        \* pages (or paragraphs) of an uploaded file
MaxClock == 1        \* seconds the clock may advance
MaxTopK == 2        \* top_k values tried by a search: 1..MaxTopK

(***************************************************************************)
(* Program constants                                                       *)
(***************************************************************************)
DefaultChunkSize == 500    \* chunk_text(text, chunk_size=500, ...)
DefaultOverlap == 50       \* chunk_text(text, ..., overlap=50)
FloatWidth == 4            \* bytes of one np.float32

(***************************************************************************)
(* Embeddings.  sentence_model.encode returns one vector per text; the     *)
(* model all-MiniLM-L6-v2 L2-normalises its output, so all vectors have    *)
(* the same norm.  A component stands for a float32 value scaled by 5.     *)
(***************************************************************************)
Vectors == {<<5, 0>>, <<3, 4>>, <<-4, 3>>}

\* little-endian two's complement byte i (0-based) of x
byteOf(x, i) ==
    IF x >= 0 THEN (x \div (256 ^ i)) % 256
    ELSE 255 - (((0 - x - 1) \div (256 ^ i)) % 256)

\* ndarray.tobytes() of a float32 vector
tobytes(v) ==
    [n \in 1..(Len(v) * FloatWidth) |->
        byteOf(v[((n - 1) \div FloatWidth) + 1], (n - 1) % FloatWidth)]

RECURSIVE unsigned(_)
unsigned(b) == IF b = <<>> THEN 0 ELSE b[1] + 256 * unsigned(Tail(b))

valueOf(b) ==
    IF b[Len(b)] >= 128
    THEN 0 - unsigned([i \in DOMAIN b |-> 255 - b[i]]) - 1
    ELSE unsigned(b)

\* np.frombuffer(blob, dtype=np.float32)
frombuffer(blob) ==
    [k \in 1..(Len(blob) \div FloatWidth) |->
        valueOf(SubSeq(blob, FloatWidth * (k - 1) + 1, FloatWidth * k))]

RECURSIVE dot(_, _)
dot(u, v) == IF u = <<>> \/ v = <<>> THEN 0 ELSE u[1] * v[1] + dot(Tail(u), Tail(v))

(***************************************************************************)
(* A similarity is kept exactly, as the signed square of the cosine:       *)
(* num / den with den > 0.  x -> sign(x) * x^2 is increasing, so comparing *)
(* these fractions compares the cosines.                                   *)
(***************************************************************************)
\* sklearn.metrics.pairwise.cosine_similarity of two rows; a zero row stays zero
cosine_similarity(q, e) ==
    LET d == dot(q, e)
        nq == dot(q, q)
        ne == dot(e, e)
    IN  IF nq = 0 \/ ne = 0 THEN [num |-> 0, den |-> 1]
        ELSE [num |-> (IF d >= 0 THEN d * d ELSE 0 - d * d), den |-> nq * ne]

SimLess(a, b) == a.num * b.den < b.num * a.den
SimEq(a, b) == a.num * b.den = b.num * a.den
SimIsOne(a) == a.num = a.den

\* faulty variant: ascending sort, then reversed; equal keys come out in reverse order
sort_reversed(seq, greater) ==
    LET same(i, j) == ~greater[i, j] /\ ~greater[j, i]
        rank(i) == Cardinality({j \in DOMAIN seq : greater[j, i]})
                 + Cardinality({j \in DOMAIN seq : j > i /\ same(j, i)}) + 1
    IN  [r \in DOMAIN seq |-> seq[CHOOSE i \in DOMAIN seq : rank(i) = r]]

\* list.sort(key=..., reverse=True): descending and stable.  greater[i, j] says
\* that the key of seq[i] is greater than the key of seq[j].
sort_desc(seq, greater) ==
    LET same(i, j) == ~greater[i, j] /\ ~greater[j, i]
        rank(i) == Cardinality({j \in DOMAIN seq : greater[j, i]})
                 + Cardinality({j \in DOMAIN seq : j < i /\ same(j, i)}) + 1
    IN  [r \in DOMAIN seq |-> seq[CHOOSE i \in DOMAIN seq : rank(i) = r]]

(***************************************************************************)
(* Files and extraction                                                    *)
(***************************************************************************)
PdfName == <<"a", ".", "p", "d", "f">>
TxtName == <<"a", ".", "t", "x", "t">>
ExeName == <<"a", ".", "e", "x", "e">>
Filenames == {PdfName, TxtName, ExeName}
RawTexts == {<<" ">>, <<"a", "\n", "a", " ">>}

\* os.path.splitext(name)[1]
splitext(name) ==
    LET dots == {i \in DOMAIN name : name[i] = "." /\ i > 1}
    IN  IF dots = {} THEN <<>> ELSE SubSeq(name, Max(dots), Len(name))

supported_extensions ==
    {<<".", "p", "d", "f">>, <<".", "d", "o", "c", "x">>, <<".", "t", "x", "t">>}

\* s.replace(old, new) for one-character old and new
replace(s, old, new) == [i \in DOMAIN s |-> IF s[i] = old THEN new ELSE s[i]]

\* f"doc_{int(timestamp)}_{filename.replace('.', '_').replace(' ', '_')}"
make_document_id(ts, filename) ==
    [ts |-> ts, name |-> replace(replace(filename, ".", "_"), " ", "_")]

nonblank(page) == page.content /= <<>>

\* fitz pages with text, numbered from 1 by their position in the file
extract_text_from_pdf(pages) ==
    SelectSeq([i \in DOMAIN pages |-> [page_number |-> i, content |-> strip(pages[i])]],
              nonblank)

\* one page; a file that is not UTF-8 is read as latin-1 and kept even when blank
extract_text_from_txt(pages, utf8) ==
    LET content == pages[1]
    IN  IF utf8 /\ strip(content) = <<>> THEN <<>>
        ELSE <<[page_number |-> 1, content |-> strip(content)]>>

RECURSIVE join_lines(_)
join_lines(ps) ==
    IF ps = <<>> THEN <<>>
    ELSE IF Len(ps) = 1 THEN ps[1]
    ELSE ps[1] \o <<"\n">> \o join_lines(Tail(ps))

\* the non-blank paragraphs joined into one page
extract_text_from_docx(pages) ==
    LET solid(p) == p /= <<>>
        full_text == SelectSeq([i \in DOMAIN pages |-> strip(pages[i])], solid)
    IN  IF full_text = <<>> THEN <<>>
        ELSE <<[page_number |-> 1, content |-> join_lines(full_text)]>>

extract_text_from_document(pages, file_extension, utf8) ==
    IF file_extension = <<".", "p", "d", "f">> THEN extract_text_from_pdf(pages)
    ELSE IF file_extension = <<".", "d", "o", "c", "x">> THEN extract_text_from_docx(pages)
    ELSE extract_text_from_txt(pages, utf8)

(***************************************************************************)
(* The document store.  All requests share one sqlite3 connection: a row   *)
(* inserted on it is seen by every later SELECT on it, committed or not,   *)
(* and stays in the open transaction until a commit or a rollback.         *)
(***************************************************************************)
NoFailure == 0 - 1
NotCalled == [raised |-> "not called", chunks |-> <<>>]

\* the global db_connection of the serverless variant before a connection is made
NoConnection == [opened_by |-> 0]
NoResponse == [op |-> "none"]

durable(rows, n) == SubSeq(rows, 1, n)

\* zip(chunks, page_numbers, embeddings) stops at the shortest
zip_len(chunks, page_numbers, embeddings) ==
    Least(Len(chunks), Least(Len(page_numbers), Len(embeddings)))

\* faulty variant: the number of words
word_count(chunk) == Len(split(chunk))

\* len(chunk), the value of column chunk_size
char_count(chunk) == Len(chunk)

\* faulty variant: the embeddings are paired with the chunks from the last to the first
zip_misaligned(chunks, page_numbers, embeddings) ==
    LET n == zip_len(chunks, page_numbers, embeddings)
    IN  [i \in 1..n |-> [chunk |-> chunks[i], page_num |-> page_numbers[i],
                         embedding |-> embeddings[n + 1 - i]]]

\* zip(chunks, page_numbers, embeddings): the i-th of each, together
zip(chunks, page_numbers, embeddings) ==
    [i \in 1..zip_len(chunks, page_numbers, embeddings) |->
        [chunk |-> chunks[i], page_num |-> page_numbers[i], embedding |-> embeddings[i]]]

\* faulty variant: enumerate(..., start=1)
chunk_index_from_one(i) == i

\* enumerate() counts from 0; i is the 1-based position
chunk_index_of(i) == i - 1

\* faulty variant: a documents table without the PRIMARY KEY constraint
no_primary_key(document_id) == FALSE

\* documents.id is TEXT PRIMARY KEY: an INSERT of an id the table holds raises
primary_key_clash(document_id) ==
    \E i \in DOMAIN documents : documents[i].id = document_id

(***************************************************************************)
(* save_document_to_db.  fail_at names the statement that raises: 0 the    *)
(* INSERT INTO documents, i the INSERT of the i-th chunk, n + 1 the        *)
(* commit, NoFailure none.  A primary-key clash always raises at 0.  The   *)
(* function never rolls back; SQLite itself undoes either the failing      *)
(* statement only or (auto_rollback) the whole open transaction.           *)
(* by is the number of the upload request, kept on the rows for reference. *)
(***************************************************************************)
save_document_to_db(document_id, filename, chunks, page_numbers, embeddings, fail_at, auto_rollback, by) ==
    LET n == zip_len(chunks, page_numbers, embeddings)
        doc == [id |-> document_id, filename |-> filename, upload_date |-> clock,
                total_chunks |-> Len(chunks), by |-> by]
        zipped == zip(chunks, page_numbers, embeddings)
        row(i) == [document_id |-> document_id, chunk_index |-> chunk_index_of(i),
                   content |-> zipped[i].chunk, page_number |-> zipped[i].page_num,
                   embedding |-> tobytes(zipped[i].embedding),
                   chunk_size |-> char_count(zipped[i].chunk), by |-> by]
        clash == primary_key_clash(document_id)
        done(k) == IF k < n THEN k ELSE n
        with(k) == [documents |-> Append(documents, doc),
                    document_chunks |-> document_chunks \o [i \in 1..done(k) |-> row(i)]]
        undone == [documents |-> durable(documents, committed.documents),
                   document_chunks |-> durable(document_chunks, committed.document_chunks)]
        same == [documents |-> documents, document_chunks |-> document_chunks]
        out(t, c, raised) == [documents |-> t.documents, document_chunks |-> t.document_chunks,
                              committed |-> c, raised |-> raised]
    IN  IF clash THEN out(same, committed, "IntegrityError")
        ELSE IF fail_at = 0
             THEN out(IF auto_rollback THEN undone ELSE same, committed, "OperationalError")
        ELSE IF fail_at \in 1..(n + 1)
             THEN out(IF auto_rollback THEN undone ELSE with(fail_at - 1), committed,
                      "OperationalError")
        ELSE out(with(n),
                 [documents |-> Len(documents) + 1, document_chunks |-> Len(document_chunks) + n],
                 "none")

RECURSIVE flatten(_)
flatten(seqs) == IF seqs = <<>> THEN <<>> ELSE seqs[1] \o flatten(Tail(seqs))

\* faulty variant: the text of all pages is chunked in one piece
chunks_across_pages(pages_content) ==
    LET whole == chunk_text(flatten([i \in DOMAIN pages_content |->
                                        pages_content[i].content \o <<"\n">>]),
                            DefaultChunkSize, DefaultOverlap).chunks
    IN  [all_chunks |-> whole,
         chunk_page_numbers |-> [k \in DOMAIN whole |-> pages_content[1].page_number]]

\* the loop over pages_content: chunks and their page numbers, page by page
chunks_of_pages(pages_content) ==
    LET per(i) == chunk_text(pages_content[i].content, DefaultChunkSize, DefaultOverlap).chunks
    IN  [all_chunks |-> flatten([i \in DOMAIN pages_content |-> per(i)]),
         chunk_page_numbers |->
             flatten([i \in DOMAIN pages_content |->
                         [k \in 1..Len(per(i)) |-> pages_content[i].page_number]])]

NoDocument == [ts |-> 0 - 1, name |-> <<>>]

\* the HTTPException an upload ends in; by and document_id are kept for reference
Failure(by, detail, document_id) ==
    [op |-> "upload", success |-> FALSE, detail |-> detail, upload |-> by,
     document_id |-> document_id]

\* faulty variant: the documents row is written before the failure is found
rejected_after_insert(by, detail, document_id) ==
    /\ response' = Failure(by, detail, document_id)
    /\ documents' = Append(documents, [id |-> document_id, filename |-> <<>>,
                                       upload_date |-> clock, total_chunks |-> 0, by |-> by])
    /\ UNCHANGED <<document_chunks, committed, failed>>

\* an exception raised before save_document_to_db is called: the tables are not touched
rejected(by, detail, document_id) ==
    /\ response' = Failure(by, detail, document_id)
    /\ UNCHANGED <<documents, document_chunks, committed, failed>>

\* faulty variant: the handler goes on with an empty chunk list
no_chunks_unchecked(all_chunks) == FALSE

\* "if not all_chunks"
no_chunks(all_chunks) == all_chunks = <<>>

(***************************************************************************)
(* POST /api/v1/upload, from the extraction on: this part of the handler   *)
(* has no await and runs without interruption.  file_present: the          *)
(* temporary file is still at file_path.  Every exception is turned into a *)
(* 500 response.                                                           *)
(***************************************************************************)
process_upload(by, filename, document_id, pages, file_present, extract_ok, utf8, embed_ok, embeddings, fail_at, auto_rollback) ==
    LET file_extension == splitext(filename)
        pages_content == extract_text_from_document(pages, file_extension, utf8)
        cut == chunks_of_pages(pages_content)
        saved == save_document_to_db(document_id, filename, cut.all_chunks,
                                     cut.chunk_page_numbers, embeddings,
                                     fail_at, auto_rollback, by)
    IN  IF ~file_present \/ ~extract_ok THEN rejected(by, "processing failed", document_id)
        ELSE IF pages_content = <<>> THEN rejected(by, "No text content found", document_id)
        ELSE IF no_chunks(cut.all_chunks)
             THEN rejected(by, "Could not create chunks", document_id)
        ELSE IF ~embed_ok THEN rejected(by, "Embedding creation failed", document_id)
        ELSE /\ documents' = saved.documents
             /\ document_chunks' = saved.document_chunks
             /\ committed' = saved.committed
             /\ failed' = IF saved.raised = "none" THEN failed ELSE failed \cup {by}
             /\ response' =
                  IF saved.raised = "none"
                  THEN [op |-> "upload", success |-> TRUE, document_id |-> document_id,
                        chunks_created |-> Len(cut.all_chunks),
                        produced |-> Len(cut.all_chunks), upload |-> by,
                        all_chunks |-> cut.all_chunks,
                        chunk_page_numbers |-> cut.chunk_page_numbers,
                        embeddings |-> embeddings]
                  ELSE Failure(by, IF saved.raised = "IntegrityError"
                                   THEN "Database save failed: UNIQUE constraint failed"
                                   ELSE "Database save failed", document_id)

(***************************************************************************)
(* POST /api/v1/upload as one step: the request whose await file.read()    *)
(* returns at once, so that no other request runs in between.              *)
(***************************************************************************)
upload_document(filename, pages, extract_ok, utf8, embed_ok, embeddings, fail_at, auto_rollback) ==
    LET by == uploads + 1
    IN  /\ uploads < MaxUploads
        /\ uploads' = by
        /\ UNCHANGED <<clock, call, ret, requests, files, chunked, chat_model, db_connection, tables, exchanges>>
        /\ IF splitext(filename) \notin supported_extensions
           THEN rejected(by, "Unsupported file type", NoDocument)
           ELSE process_upload(by, filename, make_document_id(clock, filename), pages, TRUE,
                               extract_ok, utf8, embed_ok, embeddings, fail_at, auto_rollback)

\* what a page after the first reads: nothing, or a text unlike the first page's
LaterTexts == {<<" ">>, <<"a">>}

\* the texts of the pages of a file
PageSeqs ==
    UNION {{s \in [1..n -> RawTexts \cup LaterTexts] :
               s[1] \in RawTexts /\ \A p \in 2..n : s[p] \in LaterTexts}
           : n \in 1..MaxPages}

\* the uploaded files: a text file is one piece of text
Files ==
    {f \in [filename : Filenames, pages : PageSeqs] :
        splitext(f.filename) = <<".", "t", "x", "t">> => Len(f.pages) = 1}

\* What the collaborators do during one upload: the extractor and the embedder
\* return or raise, the text file decodes as UTF-8 or not, and SQLite runs every
\* statement, or fails at one and undoes that statement, or fails and rolls the
\* open transaction back.  sentence_model.encode returns one vector per chunk.
\* After a rollback neither the vectors nor the failing
\* statement show in the outcome, so one representative of them is tried.
Environments(f) ==
    LET txt == splitext(f.filename) = <<".", "t", "x", "t">>
        n(utf8) == Len(chunks_of_pages(extract_text_from_document(
                           f.pages, splitext(f.filename), utf8)).all_chunks)
        any == CHOOSE v \in Vectors : TRUE
        env(x, u, e, v, a, r) == [extract_ok |-> x, utf8 |-> u, embed_ok |-> e,
                                  embeddings |-> v, fail_at |-> a, auto_rollback |-> r]
    IN  {env(FALSE, TRUE, TRUE, <<>>, NoFailure, FALSE)}
        \cup {env(TRUE, u, FALSE, <<>>, NoFailure, FALSE) : u \in {TRUE} \cup {~txt}}
        \cup UNION {
               {env(TRUE, u, TRUE, v, a, FALSE) :
                    v \in [1..n(u) -> Vectors], a \in {NoFailure} \cup 0..(n(u) + 1)}
               \cup {env(TRUE, u, TRUE, [i \in 1..n(u) |-> any], 0, TRUE)}
               : u \in {TRUE} \cup {~txt}}

\* every upload request with what its collaborators do
UploadInputs == UNION {{[file |-> f, env |-> e] : e \in Environments(f)} : f \in Files}

Upload ==
    \E x \in UploadInputs :
        upload_document(x.file.filename, x.file.pages, x.env.extract_ok, x.env.utf8,
                        x.env.embed_ok, x.env.embeddings, x.env.fail_at, x.env.auto_rollback)

(***************************************************************************)
(* search_similar_chunks                                                   *)
(***************************************************************************)
\* SELECT ... FROM document_chunks dc JOIN documents d ON dc.document_id = d.id:
\* SQLite scans document_chunks in rowid order and looks each document up by its key
joined_rows ==
    LET has_doc(i) == \E j \in DOMAIN documents : documents[j].id = document_chunks[i].document_id
        doc_of(i) == documents[CHOOSE j \in DOMAIN documents :
                                   documents[j].id = document_chunks[i].document_id]
        hit(r) == r.matched
        all == [i \in DOMAIN document_chunks |->
                  IF has_doc(i)
                  THEN [matched |-> TRUE, rowid |-> i,
                        content |-> document_chunks[i].content,
                        page_number |-> document_chunks[i].page_number,
                        embedding |-> document_chunks[i].embedding,
                        filename |-> doc_of(i).filename,
                        document_id |-> document_chunks[i].document_id]
                  ELSE [matched |-> FALSE, rowid |-> i]]
    IN  SelectSeq(all, hit)

greater_similarity(similarities) ==
    [i, j \in DOMAIN similarities |->
        SimLess(similarities[j].similarity, similarities[i].similarity)]

\* faulty variant: sorted ascending and then reversed
ranked_reversed(similarities) == sort_reversed(similarities, greater_similarity(similarities))

\* similarities.sort(key=lambda x: x['similarity'], reverse=True)
ranked(similarities) == sort_desc(similarities, greater_similarity(similarities))

\* What makes the try block of search_similar_chunks raise: encode_ok is FALSE when
\* sentence_model.encode([query]) raises, and cosine_similarity rejects rows of
\* another length than the query.
search_raises(encode_ok, query_embedding) ==
    \/ ~encode_ok
    \/ \E i \in DOMAIN joined_rows :
           Len(frombuffer(joined_rows[i].embedding)) /= Len(query_embedding)

\* Any exception is logged and ends in "return []".  rowid is kept on a result
\* for reference.
search_similar_chunks(encode_ok, query_embedding, top_k) ==
    LET results == joined_rows
        similarities ==
            [i \in DOMAIN results |->
                [content |-> results[i].content, page_number |-> results[i].page_number,
                 filename |-> results[i].filename, document_id |-> results[i].document_id,
                 similarity |-> cosine_similarity(query_embedding,
                                                  frombuffer(results[i].embedding)),
                 rowid |-> results[i].rowid]]
    IN  IF search_raises(encode_ok, query_embedding) THEN <<>>
        ELSE IF results = <<>> THEN <<>>
        ELSE SubSeq(ranked(similarities), 1, Least(top_k, Len(similarities)))

\* The words of a query that choose the template of the answer: the first of
\* what/define/explain, how, why that it holds, or none of them.
QueryKinds == {"what", "how", "why", "other"}
UsedChunks == 3       \* relevant_chunks[:3]
ExcerptLen == 300     \* chunk['content'][:300]

\* "From <filename> (Page <page_number>): <content[:300]>..."
context_part(chunk) ==
    [filename |-> chunk.filename, page_number |-> chunk.page_number,
     excerpt |-> SubSeq(chunk.content, 1, Least(ExcerptLen, Len(chunk.content)))]

\* faulty variant: the context is made of the last chunks of the list
generate_rag_response_from_last(kind, relevant_chunks) ==
    IF relevant_chunks = <<>> THEN [text |-> "no information"]
    ELSE LET n == Len(relevant_chunks)
             first == IF n > UsedChunks THEN n - UsedChunks + 1 ELSE 1
         IN  [text |-> "from the documents", template |-> kind,
              context_parts |-> [i \in 1..(n - first + 1) |->
                                    context_part(relevant_chunks[first + i - 1])],
              sections |-> n]

\* The answer: the fixed "I don't have information ..." text for no chunks,
\* otherwise the template of the query with the context_parts of the first three
\* chunks and the number len(relevant_chunks) as its count of sections.
generate_rag_response(kind, relevant_chunks) ==
    IF relevant_chunks = <<>> THEN [text |-> "no information"]
    ELSE [text |-> "from the documents", template |-> kind,
          context_parts |->
              [i \in 1..Least(UsedChunks, Len(relevant_chunks)) |->
                  context_part(relevant_chunks[i])],
          sections |-> Len(relevant_chunks)]

\* POST /api/v1/chat.  search_similar_chunks never raises, so the handler always
\* answers 200 with a ChatResponse.  The query is one without what, how or why.
\* logged: whether the call wrote "Search error" to the log
Search ==
    \E query_embedding \in Vectors, top_k \in 1..MaxTopK, encode_ok \in BOOLEAN :
        /\ response' =
               LET relevant_chunks == search_similar_chunks(encode_ok, query_embedding, top_k)
               IN  [op |-> "search", query |-> query_embedding, top_k |-> top_k,
                    results |-> relevant_chunks,
                    logged |-> search_raises(encode_ok, query_embedding),
                    status |-> 200, answer |-> generate_rag_response("other", relevant_chunks)]
        /\ UNCHANGED <<documents, document_chunks, committed, clock, uploads, failed, call, ret, requests, files, chunked, chat_model, db_connection, tables, exchanges>>

(***************************************************************************)
(* POST /api/v1/chat as the handler calls it, with top_k = 5, on a store   *)
(* that holds up to MaxChatChunks chunks of a PDF file of as many pages    *)
(* and, or, the one chunk of a text file.                                  *)
(***************************************************************************)
ChatTopK == 5
MaxChatChunks == 6

\* np.mean of the similarities is kept as the list it is the mean of
chat_with_documents(kind, query_embedding, encode_ok) ==
    LET relevant_chunks == search_similar_chunks(encode_ok, query_embedding, ChatTopK)
    IN  [op |-> "chat", status |-> 200, kind |-> kind, query |-> query_embedding,
         logged |-> search_raises(encode_ok, query_embedding),
         response |-> generate_rag_response(kind, relevant_chunks),
         relevant_chunks |-> relevant_chunks,
         confidence |->
             IF relevant_chunks = <<>> THEN [value |-> "0.0", mean_of |-> <<>>]
             ELSE [value |-> "mean",
                   mean_of |-> [i \in DOMAIN relevant_chunks |-> relevant_chunks[i].similarity]],
         document_sources |-> {relevant_chunks[i].filename : i \in DOMAIN relevant_chunks}]

VectorList == <<<<5, 0>>, <<3, 4>>, <<-4, 3>>>>
PageContents == <<<<"a">>, <<"a", " ", "a">>>>

\* what two uploads in the same second have stored: a PDF file of n pages with one
\* chunk each, whose embeddings start at the given place of VectorList, and then a
\* text file of one chunk (n = 0: no PDF file; ~with_txt: no text file)
stored(n, phase, with_txt) ==
    LET pdf == make_document_id(0, PdfName)
        txt == make_document_id(0, TxtName)
        pdf_doc == [id |-> pdf, filename |-> PdfName, upload_date |-> 0,
                    total_chunks |-> n, by |-> 1]
        txt_doc == [id |-> txt, filename |-> TxtName, upload_date |-> 0,
                    total_chunks |-> 1, by |-> IF n = 0 THEN 1 ELSE 2]
        pdf_rows == [i \in 1..n |->
                        [document_id |-> pdf, chunk_index |-> chunk_index_of(i),
                         content |-> PageContents[(i % 2) + 1], page_number |-> i,
                         embedding |-> tobytes(VectorList[((i + phase) % 3) + 1]),
                         chunk_size |-> Len(PageContents[(i % 2) + 1]), by |-> 1]]
        txt_rows == <<[document_id |-> txt, chunk_index |-> chunk_index_of(1),
                       content |-> PageContents[2], page_number |-> 1,
                       embedding |-> tobytes(VectorList[(phase % 3) + 1]),
                       chunk_size |-> Len(PageContents[2]),
                       by |-> IF n = 0 THEN 1 ELSE 2]>>
    IN  [documents |-> (IF n = 0 THEN <<>> ELSE <<pdf_doc>>)
                           \o (IF with_txt THEN <<txt_doc>> ELSE <<>>),
         document_chunks |-> pdf_rows \o (IF with_txt THEN txt_rows ELSE <<>>)]

(***************************************************************************)
(* GET /api/v1/documents                                                   *)
(***************************************************************************)
later(rows) == [i, j \in DOMAIN rows |-> rows[i].upload_date > rows[j].upload_date]

\* SELECT ... FROM documents ORDER BY upload_date DESC
list_documents == sort_desc(documents, later(documents))

ListDocuments ==
    /\ response' = [op |-> "list", documents |-> list_documents]
    /\ UNCHANGED <<documents, document_chunks, committed, clock, uploads, failed, call, ret, requests, files, chunked, chat_model, db_connection, tables, exchanges>>

\* a second passes
Tick ==
    /\ clock < MaxClock
    /\ clock' = clock + 1
    /\ UNCHANGED <<documents, document_chunks, committed, uploads, failed, response, call, ret, requests, files, chunked, chat_model, db_connection, tables, exchanges>>

\* DocumentAwareChatModel.__init__: nothing loaded, no conversation.  variant is
\* "lightweight" (lightweight_chat_model.py) or "full" (document_chat_model.py);
\* only the full one has an embedder, None when it could not be loaded, and keeps
\* embeddings.
NoMetadata == [filename |-> <<>>]
DocumentAwareChatModel(variant, embedder) ==
    [variant |-> variant, embedder |-> embedder,
     current_document_chunks |-> <<>>, current_document_embeddings |-> <<>>,
     current_document_metadata |-> NoMetadata, conversation_history |-> <<>>]

StoreInit ==
    /\ chunked = <<>>
    /\ chat_model = DocumentAwareChatModel("lightweight", "None")
    /\ db_connection = NoConnection
    /\ tables = {}
    /\ exchanges = <<>>
    /\ documents = <<>>
    /\ document_chunks = <<>>
    /\ committed = [documents |-> 0, document_chunks |-> 0]
    /\ clock = 0
    /\ uploads = 0
    /\ failed = {}
    /\ response = NoResponse
    /\ requests = <<>>
    /\ files = {}

ChunkIdle ==
    /\ call = [text |-> <<>>, chunk_size |-> DefaultChunkSize, overlap |-> DefaultOverlap]
    /\ ret = NotCalled

Init == StoreInit /\ ChunkIdle

Next == Upload \/ Search \/ ListDocuments \/ Tick

Spec == Init /\ [][Next]_vars

(***************************************************************************)
(* Uploads that overlap in time.  The handler is a coroutine on one event  *)
(* loop; its only suspension point is "await file.read()", reached after   *)
(* the document id is taken from the clock and the temporary file          *)
(* uploads/<document_id><ext> is opened for writing.  What follows the     *)
(* await runs in one piece.  The extractor, the embedder and SQLite all    *)
(* work here: only the interleaving varies.                                *)
(***************************************************************************)
MaxRequests == 2

\* an uploaded file together with whether its bytes decode as UTF-8
Contents == {c \in [file : Files, utf8 : BOOLEAN] :
                ~c.utf8 => splitext(c.file.filename) = <<".", "t", "x", "t">>}

\* the chunks the pipeline makes of an uploaded file
batch(filename, pages, utf8) ==
    chunks_of_pages(extract_text_from_document(pages, splitext(filename), utf8)).all_chunks

\* up to "content = await file.read()": extension check, document_id, open(file_path, "wb")
BeginUpload ==
    \E c \in Contents :
        LET by == uploads + 1
            supported == splitext(c.file.filename) \in supported_extensions
            document_id == IF supported THEN make_document_id(clock, c.file.filename)
                           ELSE NoDocument
        IN  /\ uploads < MaxRequests
            /\ uploads' = by
            /\ requests' = Append(requests,
                   [filename |-> c.file.filename, pages |-> c.file.pages, utf8 |-> c.utf8,
                    document_id |-> document_id,
                    state |-> IF supported THEN "reading" ELSE "rejected"])
            /\ files' = IF supported THEN files \cup {document_id} ELSE files
            /\ IF supported
               THEN UNCHANGED <<documents, document_chunks, committed, failed, response>>
               ELSE rejected(by, "Unsupported file type", NoDocument)
            /\ UNCHANGED <<clock, call, ret, chunked, chat_model, db_connection, tables, exchanges>>

\* from buffer.write(content) to the response; os.remove(file_path) runs after a
\* success and, if the path exists, after an error
FinishUpload ==
    \E by \in DOMAIN requests :
        LET r == requests[by]
            n == Len(batch(r.filename, r.pages, r.utf8))
        IN  /\ r.state = "reading"
            /\ process_upload(by, r.filename, r.document_id, r.pages,
                              r.document_id \in files, TRUE, r.utf8, TRUE,
                              [i \in 1..n |-> CHOOSE v \in Vectors : TRUE], NoFailure, FALSE)
            /\ files' = files \ {r.document_id}
            /\ requests' = [requests EXCEPT
                               ![by].state = IF response'.success THEN "stored" ELSE "rejected"]
            /\ UNCHANGED <<clock, uploads, call, ret, chunked, chat_model, db_connection, tables, exchanges>>

NextConcurrent == BeginUpload \/ FinishUpload \/ Tick

SpecConcurrent == Init /\ [][NextConcurrent]_vars

(***************************************************************************)
(* The chunker on its own: a call with any text and any parameters         *)
(***************************************************************************)
Texts == UNION {[1..n -> Alphabet] : n \in 0..MaxTextLen}

InitChunk ==
    /\ call \in [text : Texts, chunk_size : 1..MaxChunkSize, overlap : 0..MaxOverlap]
    /\ ret = NotCalled
    /\ StoreInit

ChunkCall ==
    /\ ret = NotCalled
    /\ ret' = chunk_text(call.text, call.chunk_size, call.overlap)
    /\ UNCHANGED <<call, documents, document_chunks, committed, clock, uploads, failed, response, requests, files, chunked, chat_model, db_connection, tables, exchanges>>

NextChunk == ChunkCall

SpecChunk == InitChunk /\ [][NextChunk]_vars

(***************************************************************************)
(* list.sort as CPython runs it on a short list (fewer than 64 items):     *)
(* count_run finds the leading run, reversing it if it descends strictly,  *)
(* and binarysort inserts the remaining items by bisection.  Only "<" on   *)
(* the keys is used.  a is a sequence of positions of the list and         *)
(* lt[i, j] says that the key at position i is less than the key at j.     *)
(* sort(reverse=True) reverses the list, sorts it and reverses the result. *)
(***************************************************************************)
reversed(s) == [i \in DOMAIN s |-> s[Len(s) + 1 - i]]

RECURSIVE count_run(_, _, _, _)
count_run(a, lt, run, descending) ==
    IF run < Len(a) /\ (IF descending THEN lt[a[run + 1], a[run]] ELSE ~lt[a[run + 1], a[run]])
    THEN count_run(a, lt, run + 1, descending)
    ELSE run

\* l and r count from 0, as in the C code
RECURSIVE bisect(_, _, _, _, _)
bisect(a, lt, pivot, l, r) ==
    IF l < r
    THEN LET p == l + ((r - l) \div 2)
         IN  IF lt[pivot, a[p + 1]] THEN bisect(a, lt, pivot, l, p)
             ELSE bisect(a, lt, pivot, p + 1, r)
    ELSE l

RECURSIVE binarysort(_, _, _)
binarysort(a, lt, start) ==
    IF start >= Len(a) THEN a
    ELSE LET pivot == a[start + 1]
             l == bisect(a, lt, pivot, 0, start)
         IN  binarysort(SubSeq(a, 1, l) \o <<pivot>> \o SubSeq(a, l + 1, start)
                            \o SubSeq(a, start + 2, Len(a)),
                        lt, start + 1)

list_sort(a, lt) ==
    IF Len(a) <= 1 THEN a
    ELSE LET descending == lt[a[2], a[1]]
             run == count_run(a, lt, 2, descending)
         IN  binarysort(IF descending
                        THEN reversed(SubSeq(a, 1, run)) \o SubSeq(a, run + 1, Len(a))
                        ELSE a,
                        lt, run)

list_sort_reverse(seq, lt) ==
    LET order == reversed(list_sort(reversed([i \in DOMAIN seq |-> i]), lt))
    IN  [r \in DOMAIN seq |-> seq[order[r]]]

(***************************************************************************)
(* AdvancedDocumentProcessor.search_semantic_chunks                        *)
(* (advanced_document_processor.py): the caller passes the chunks and      *)
(* their embeddings.  A chunk is named by its position in the list.        *)
(***************************************************************************)
MaxStored == 3

\* float('nan'): "<" is false both ways, as it is for 0/0 under SimLess
NaN == [num |-> 0, den |-> 0]
IsNaN(x) == x.den = 0

\* np.dot(q, e) / (np.linalg.norm(q) * np.linalg.norm(e)): 0.0 / 0.0 is nan
np_cosine(q, e) ==
    IF dot(q, q) = 0 \/ dot(e, e) = 0 THEN NaN ELSE cosine_similarity(q, e)

\* similarities.sort(key=lambda x: x[1], reverse=True)
sort_by_similarity(seq, lt) == list_sort_reverse(seq, lt)

\* embedder: self.embedder is loaded; encode_ok: self.embedder.encode([query])
\* returns query_embedding; query_given: query is not empty.
\* printed: the call printed "Semantic search failed".  The function never raises.
search_semantic_chunks(embedder, encode_ok, query_given, query_embedding, chunks, embeddings, top_k) ==
    LET first == [i \in 1..Least(top_k, Len(chunks)) |-> [chunk |-> chunks[i], scored |-> FALSE]]
        similarities ==
            [i \in DOMAIN embeddings |->
                [chunk_idx |-> i, similarity |-> np_cosine(query_embedding, embeddings[i])]]
        lt == [i, j \in DOMAIN embeddings |->
                  SimLess(similarities[i].similarity, similarities[j].similarity)]
        sorted == sort_by_similarity(similarities, lt)
        top == SubSeq(sorted, 1, Least(top_k, Len(sorted)))
        raises ==
            \/ ~encode_ok
            \/ \E i \in DOMAIN embeddings : Len(embeddings[i]) /= Len(query_embedding)
            \/ \E i \in DOMAIN top : top[i].chunk_idx > Len(chunks)
    IN  IF ~embedder \/ chunks = <<>> \/ embeddings = <<>> \/ ~query_given
        THEN [raised |-> "none", returned |-> first, printed |-> FALSE]
        ELSE IF raises
        THEN [raised |-> "none", returned |-> first, printed |-> TRUE]
        ELSE [raised |-> "none", printed |-> FALSE,
              returned |-> [i \in DOMAIN top |->
                               [chunk |-> chunks[top[i].chunk_idx], scored |-> TRUE,
                                similarity_score |-> top[i].similarity, rank |-> i]]]

ZeroVector == <<0, 0>>
OtherModelVector == <<5>>
PassedEmbeddings ==
    UNION {[1..n -> Vectors \cup {ZeroVector, OtherModelVector}] : n \in 0..MaxStored}

SemanticCalls ==
    [embedder : BOOLEAN, encode_ok : BOOLEAN, query_given : BOOLEAN,
     query_embedding : Vectors \cup {ZeroVector},
     chunks : {[i \in 1..n |-> i] : n \in 0..MaxStored},
     embeddings : PassedEmbeddings, top_k : 1..MaxTopK]

InitSemantic ==
    /\ call \in SemanticCalls
    /\ ret = NotCalled
    /\ StoreInit

SemanticCall ==
    /\ ret = NotCalled
    /\ ret' = search_semantic_chunks(call.embedder, call.encode_ok, call.query_given,
                                     call.query_embedding, call.chunks, call.embeddings,
                                     call.top_k)
    /\ UNCHANGED <<call, documents, document_chunks, committed, clock, uploads, failed, response, requests, files, chunked, chat_model, db_connection, tables, exchanges>>

NextSemantic == SemanticCall

SpecSemantic == InitSemantic /\ [][NextSemantic]_vars

(***************************************************************************)
(* DocumentAwareChatModel._get_relevant_context of document_chat_model.py. *)
(* A loaded chunk is a dict: its content and the set of its other keys.    *)
(* A returned chunk is a copy of a loaded one with two more keys; source   *)
(* is the index of the loaded chunk, kept for reference.                   *)
(***************************************************************************)
MaxLoaded == 3
MaxContextChunks == 3

\* similarity > 0.3, on the signed square of the cosine: 0.09 = 9 / 100
above_floor(similarity) == ~IsNaN(similarity) /\ similarity.num * 100 > 9 * similarity.den

\* printed: the call printed "Context retrieval failed".  The function never raises.
get_relevant_context(self, encode_ok, query_embedding, max_chunks) ==
    LET embeddings == self.current_document_embeddings
        chunks == self.current_document_chunks
        similarities ==
            [i \in DOMAIN embeddings |->
                [chunk_idx |-> i, similarity |-> np_cosine(query_embedding, embeddings[i])]]
        lt == [i, j \in DOMAIN embeddings |->
                  SimLess(similarities[i].similarity, similarities[j].similarity)]
        sorted == sort_by_similarity(similarities, lt)
        top == SubSeq(sorted, 1, Least(max_chunks, Len(sorted)))
        kept == {i \in DOMAIN top : above_floor(top[i].similarity)}
        raises ==
            \/ ~encode_ok
            \/ \E i \in DOMAIN embeddings : Len(embeddings[i]) /= Len(query_embedding)
            \/ \E i \in kept : top[i].chunk_idx > Len(chunks)
        nth(k) == CHOOSE i \in kept : Cardinality({j \in kept : j < i}) = k - 1
    IN  IF self.embedder = "None" \/ chunks = <<>> \/ embeddings = <<>>
        THEN [returned |-> <<>>, printed |-> FALSE]
        ELSE IF raises THEN [returned |-> <<>>, printed |-> TRUE]
        ELSE [printed |-> FALSE,
              returned |->
                  [k \in 1..Cardinality(kept) |->
                      [source |-> top[nth(k)].chunk_idx,
                       content |-> chunks[top[nth(k)].chunk_idx].content,
                       keys |-> chunks[top[nth(k)].chunk_idx].keys
                                    \cup {"similarity_score", "rank"},
                       similarity_score |-> top[nth(k)].similarity,
                       rank |-> nth(k)]]]

LoadedChunks ==
    {[i \in 1..n |-> [content |-> PageContents[(i % 2) + 1], keys |-> {"chunk_id"}]] :
        n \in 0..MaxLoaded}
LoadedEmbeddings == UNION {[1..n -> Vectors \cup {ZeroVector}] : n \in 0..MaxLoaded}

\* load_document_context is handed one embedding for each chunk, or none at all
LoadedByUpload ==
    {m \in [variant : {"full"}, embedder : {"None", "loaded"},
            current_document_chunks : LoadedChunks,
            current_document_embeddings : LoadedEmbeddings,
            current_document_metadata : {[filename |-> PdfName]},
            conversation_history : {<<>>}] :
        Len(m.current_document_embeddings) \in {0, Len(m.current_document_chunks)}}

InitContext ==
    /\ chat_model \in
          {[DocumentAwareChatModel("full", embedder) EXCEPT
                !.current_document_chunks = chunks,
                !.current_document_embeddings = embeddings,
                !.current_document_metadata = [filename |-> PdfName]] :
              embedder \in {"None", "loaded"},
              chunks \in LoadedChunks,
              embeddings \in LoadedEmbeddings} \cap LoadedByUpload
    /\ call \in [encode_ok : BOOLEAN, query_embedding : Vectors,
                 max_chunks : 1..MaxContextChunks]
    /\ ret = NotCalled
    /\ chunked = <<>>
    /\ db_connection = NoConnection
    /\ tables = {}
    /\ exchanges = <<>>
    /\ documents = <<>>
    /\ document_chunks = <<>>
    /\ committed = [documents |-> 0, document_chunks |-> 0]
    /\ clock = 0
    /\ uploads = 0
    /\ failed = {}
    /\ response = NoResponse
    /\ requests = <<>>
    /\ files = {}

\* chunk_copy = chunk.copy(): the loaded chunks stay as they are
GetRelevantContext ==
    /\ ret = NotCalled
    /\ ret' = get_relevant_context(chat_model, call.encode_ok, call.query_embedding,
                                   call.max_chunks)
    /\ UNCHANGED <<call, documents, document_chunks, committed, clock, uploads, failed, response, requests, files, chunked, chat_model, db_connection, tables, exchanges>>

NextContext == GetRelevantContext

SpecContext == InitContext /\ [][NextContext]_vars

(***************************************************************************)
(* The conversation history and the loaded document of a chat model:       *)
(* lightweight_chat_model.py, which genavator_main.py uses, and            *)
(* document_chat_model.py, which main.py uses.  The n-th exchange recorded *)
(* holds the n-th message.                                                 *)
(***************************************************************************)
MaxExchanges == 12
HistoryLimit == 10       \* if len(self.conversation_history) > 10
LightweightKept == 10    \* self.conversation_history[-10:]
FullKept == 8            \* self.conversation_history[-8:]
HistoryReturned == 5     \* self.conversation_history[-5:]

\* s[-n:]
last_of(s, n) == IF Len(s) <= n THEN s ELSE SubSeq(s, Len(s) - n + 1, Len(s))

\* faulty variant: the oldest exchanges are kept
keep_oldest(variant, history) ==
    IF Len(history) > HistoryLimit THEN SubSeq(history, 1, HistoryLimit) ELSE history

\* "Keep history manageable"
keep_recent(variant, history) ==
    IF Len(history) > HistoryLimit
    THEN last_of(history, IF variant = "lightweight" THEN LightweightKept ELSE FullKept)
    ELSE history

\* generate_response: the exchange is appended unless the call has failed before
generate_response(self, message, ok) ==
    IF ok
    THEN [self EXCEPT !.conversation_history =
              keep_recent(self.variant,
                          Append(self.conversation_history,
                                 [user |-> message, assistant |-> message]))]
    ELSE self

get_conversation_history(self) == last_of(self.conversation_history, HistoryReturned)

clear_conversation_history(self) == [self EXCEPT !.conversation_history = <<>>]

\* only document_chat_model.py keeps the embeddings and resets the conversation
load_document_context(self, chunks, embeddings, metadata) ==
    IF self.variant = "lightweight"
    THEN [self EXCEPT !.current_document_chunks = chunks,
                      !.current_document_metadata = metadata]
    ELSE [self EXCEPT !.current_document_chunks = chunks,
                      !.current_document_embeddings = embeddings,
                      !.current_document_metadata = metadata,
                      !.conversation_history = <<>>]

\* what an upload hands to load_document_context
ProcessedDocuments ==
    {[chunks |-> <<[content |-> PageContents[1], keys |-> {"chunk_id"}],
                   [content |-> PageContents[2], keys |-> {"chunk_id"}]>>,
      embeddings |-> <<VectorList[1], VectorList[2]>>, metadata |-> [filename |-> PdfName]],
     [chunks |-> <<[content |-> PageContents[2], keys |-> {"chunk_id"}]>>,
      embeddings |-> <<VectorList[3]>>, metadata |-> [filename |-> TxtName]]}

InitModel ==
    /\ chat_model \in {DocumentAwareChatModel("lightweight", "None"),
                       DocumentAwareChatModel("full", "loaded")}
    /\ exchanges = <<>>
    /\ call = [op |-> "none"]
    /\ ret = NotCalled
    /\ chunked = <<>>
    /\ db_connection = NoConnection
    /\ tables = {}
    /\ documents = <<>>
    /\ document_chunks = <<>>
    /\ committed = [documents |-> 0, document_chunks |-> 0]
    /\ clock = 0
    /\ uploads = 0
    /\ failed = {}
    /\ response = NoResponse
    /\ requests = <<>>
    /\ files = {}

GenerateResponse ==
    /\ Len(exchanges) < MaxExchanges
    /\ \E ok \in BOOLEAN :
           LET message == Len(exchanges) + 1
           IN  /\ chat_model' = generate_response(chat_model, message, ok)
               /\ exchanges' = IF ok THEN Append(exchanges, [user |-> message, assistant |-> message])
                               ELSE exchanges
               /\ call' = [op |-> "generate_response", ok |-> ok]
    /\ UNCHANGED <<ret, documents, document_chunks, committed, clock, uploads, failed, response, requests, files, chunked, db_connection, tables>>

\* GET /api/v1/conversation of genavator_main.py
GetConversationHistory ==
    /\ chat_model.variant = "lightweight"
    /\ ret' = get_conversation_history(chat_model)
    /\ call' = [op |-> "get_conversation_history"]
    /\ UNCHANGED <<documents, document_chunks, committed, clock, uploads, failed, response, requests, files, chunked, chat_model, db_connection, tables, exchanges>>

ClearConversationHistory ==
    /\ chat_model' = clear_conversation_history(chat_model)
    /\ call' = [op |-> "clear_conversation_history"]
    /\ UNCHANGED <<ret, documents, document_chunks, committed, clock, uploads, failed, response, requests, files, chunked, db_connection, tables, exchanges>>

\* upload_document of genavator_main.py and of main.py, after a processed upload
LoadDocumentContext ==
    /\ \E d \in ProcessedDocuments :
           /\ chat_model' = load_document_context(chat_model, d.chunks, d.embeddings, d.metadata)
           /\ call' = [op |-> "load_document_context", document |-> d]
    /\ UNCHANGED <<ret, documents, document_chunks, committed, clock, uploads, failed, response, requests, files, chunked, db_connection, tables, exchanges>>

NextModel ==
    GenerateResponse \/ GetConversationHistory \/ ClearConversationHistory \/ LoadDocumentContext

SpecModel == InitModel /\ [][NextModel]_vars

(***************************************************************************)
(* DocumentAwareChatModel._get_relevant_context of                         *)
(* lightweight_chat_model.py: chunks are strings, scored by the words they *)
(* share with the query.                                                   *)
(***************************************************************************)
MaxKeywordChunks == 3

\* str.lower() on the letters used here
lower(text) ==
    [i \in DOMAIN text |->
        IF text[i] = "A" THEN "a" ELSE IF text[i] = "B" THEN "b" ELSE text[i]]

\* set(text.lower().split())
word_set(text) == {split(lower(text))[i] : i \in DOMAIN split(lower(text))}

\* "\n\n".join(chunks)
RECURSIVE join_paragraphs(_)
join_paragraphs(chunks) ==
    IF chunks = <<>> THEN <<>>
    ELSE IF Len(chunks) = 1 THEN chunks[1]
    ELSE chunks[1] \o <<"\n", "\n">> \o join_paragraphs(Tail(chunks))

\* score = overlap / len(query_words) if query_words else 0 is kept as the overlap:
\* all scores of a call have the same denominator.
\* relevant_chunks: the chunks joined into the returned string, in that order.
keyword_context(self, query, max_chunks) ==
    LET chunks == self.current_document_chunks
        query_words == word_set(query)
        chunk_scores ==
            [i \in DOMAIN chunks |->
                [score |-> Cardinality(query_words \cap word_set(chunks[i])),
                 i |-> i, chunk |-> chunks[i]]]
        lt == [i, j \in DOMAIN chunks |-> chunk_scores[i].score < chunk_scores[j].score]
        sorted == list_sort_reverse(chunk_scores, lt)
        top == SubSeq(sorted, 1, Least(max_chunks, Len(sorted)))
        relevant_chunks ==
            IF sorted[1].score > 0 THEN [k \in DOMAIN top |-> top[k].chunk] ELSE <<>>
    IN  IF chunks = <<>> THEN [relevant_chunks |-> <<>>, text |-> <<>>]
        ELSE [relevant_chunks |-> relevant_chunks, text |-> join_paragraphs(relevant_chunks)]

ChunkStrings == {<<"a">>, <<"b">>, <<"A", " ", "b">>}
Queries == {<<"a">>, <<"B", " ", "a">>, <<"c">>, <<" ">>}

InitKeyword ==
    /\ chat_model \in
          {[DocumentAwareChatModel("lightweight", "None") EXCEPT
                !.current_document_chunks = chunks,
                !.current_document_metadata = [filename |-> TxtName]] :
              chunks \in UNION {[1..n -> ChunkStrings] : n \in 0..MaxKeywordChunks}}
    /\ call \in [query : Queries, max_chunks : 1..MaxContextChunks]
    /\ ret = NotCalled
    /\ exchanges = <<>>
    /\ chunked = <<>>
    /\ db_connection = NoConnection
    /\ tables = {}
    /\ documents = <<>>
    /\ document_chunks = <<>>
    /\ committed = [documents |-> 0, document_chunks |-> 0]
    /\ clock = 0
    /\ uploads = 0
    /\ failed = {}
    /\ response = NoResponse
    /\ requests = <<>>
    /\ files = {}

KeywordContext ==
    /\ ret = NotCalled
    /\ ret' = keyword_context(chat_model, call.query, call.max_chunks)
    /\ UNCHANGED <<call, documents, document_chunks, committed, clock, uploads, failed, response, requests, files, chunked, chat_model, db_connection, tables, exchanges>>

NextKeyword == KeywordContext

SpecKeyword == InitKeyword /\ [][NextKeyword]_vars

(***************************************************************************)
(* get_database of the serverless variant (api/index.py).  The global      *)
(* db_connection is None until the first call; the database file           *)
(* /tmp/rag_documents.db keeps the tables that a CREATE TABLE statement    *)
(* has made, whichever connection ran it (sqlite3 runs DDL outside a       *)
(* transaction, so a table made before a later statement raised stays).    *)
(***************************************************************************)
MaxDatabaseCalls == 6   \* calls of get_database in one process

\* the statements of the try block, in order, and where one of them may raise
Statements == <<"connect", "documents", "document_chunks", "commit">>
FailPoints == {"none", "connect", "documents", "document_chunks", "commit"}

\* the statements that ran to completion when the one named fail_at raises
completed(fail_at) ==
    {Statements[i] : i \in {j \in DOMAIN Statements :
        \A k \in 1..j : Statements[k] /= fail_at}}

\* what get_database leaves and returns; n names the call, and so the connection
\* object that this call makes
get_database(connection, created, n, fail_at) ==
    IF connection /= NoConnection
    THEN [db_connection |-> connection, tables |-> created,
          ret |-> [raised |-> "none", returned |-> connection]]
    ELSE LET done == completed(fail_at)
             opened == IF "connect" \in done THEN [opened_by |-> n] ELSE NoConnection
             made == created \cup (done \cap {"documents", "document_chunks"})
         IN  IF fail_at = "none"
             THEN [db_connection |-> opened, tables |-> made,
                   ret |-> [raised |-> "none", returned |-> opened]]
             ELSE [db_connection |-> opened, tables |-> made,
                   ret |-> [raised |-> "HTTPException", returned |-> NoConnection]]

InitDatabase ==
    /\ call = [op |-> "none", n |-> 0, fail_at |-> "none"]
    /\ ret = NotCalled
    /\ db_connection = NoConnection
    /\ tables = {}
    /\ chat_model = DocumentAwareChatModel("lightweight", "None")
    /\ exchanges = <<>>
    /\ chunked = <<>>
    /\ documents = <<>>
    /\ document_chunks = <<>>
    /\ committed = [documents |-> 0, document_chunks |-> 0]
    /\ clock = 0
    /\ uploads = 0
    /\ failed = {}
    /\ response = NoResponse
    /\ requests = <<>>
    /\ files = {}

GetDatabase ==
    /\ call.n < MaxDatabaseCalls
    /\ \E fail_at \in FailPoints :
          LET out == get_database(db_connection, tables, call.n + 1, fail_at)
          IN  /\ call' = [op |-> "get_database", n |-> call.n + 1, fail_at |-> fail_at]
              /\ db_connection' = out.db_connection
              /\ tables' = out.tables
              /\ ret' = out.ret
    /\ UNCHANGED <<documents, document_chunks, committed, clock, uploads, failed, response, requests, files, chunked, chat_model, exchanges>>

NextDatabase == GetDatabase

SpecDatabase == InitDatabase /\ [][NextDatabase]_vars

(***************************************************************************)
(* The chunk loop of upload_document on its own, on pages of realistic     *)
(* size.  Every word of a page is different: word k of page p reads        *)
(* p<p>w<k>, so that a chunk shows which words it holds.                   *)
(***************************************************************************)
MaxScenarioPages == 3
ScenarioWordCounts == {1, 100, 460, 1200}

Digits == <<"0", "1", "2", "3", "4", "5", "6", "7", "8", "9">>
RECURSIVE numeral(_)
numeral(k) == IF k < 10 THEN <<Digits[k + 1]>> ELSE numeral(k \div 10) \o <<Digits[(k % 10) + 1]>>
word(p, k) == <<"p">> \o numeral(p) \o <<"w">> \o numeral(k)
\* the words first..last of page p, counted from 0, separated by single spaces
words_text(p, first, last) == join([j \in 1..(last - first + 1) |-> word(p, first + j - 1)])

\* what the extractor returns for pages of the given numbers of words
pages_of(word_counts) ==
    [p \in DOMAIN word_counts |->
        [page_number |-> p, content |-> words_text(p, 0, word_counts[p] - 1)]]

InitPages ==
    /\ call \in {[word_counts |-> c] :
                    c \in UNION {[1..n -> ScenarioWordCounts] : n \in 1..MaxScenarioPages}}
    /\ ret = NotCalled
    /\ StoreInit

PagesCall ==
    /\ ret = NotCalled
    /\ ret' = chunks_of_pages(pages_of(call.word_counts))
    /\ UNCHANGED <<call, documents, document_chunks, committed, clock, uploads, failed, response, requests, files, chunked, chat_model, db_connection, tables, exchanges>>

NextPages == PagesCall

SpecPages == InitPages /\ [][NextPages]_vars

(***************************************************************************)
(* The chat handler on its own, on the stores of stored(n, phase, with_txt) *)
(***************************************************************************)
InitChat ==
    /\ \E n \in 0..MaxChatChunks, phase \in 0..2, with_txt \in BOOLEAN :
           /\ documents = stored(n, phase, with_txt).documents
           /\ document_chunks = stored(n, phase, with_txt).document_chunks
    /\ committed = [documents |-> Len(documents), document_chunks |-> Len(document_chunks)]
    /\ clock = 0
    /\ uploads = Len(documents)
    /\ failed = {}
    /\ response = NoResponse
    /\ requests = <<>>
    /\ files = {}
    /\ chunked = <<>>
    /\ chat_model = DocumentAwareChatModel("lightweight", "None")
    /\ db_connection = NoConnection
    /\ tables = {}
    /\ exchanges = <<>>
    /\ ChunkIdle

Chat ==
    \E kind \in QueryKinds, query_embedding \in Vectors, encode_ok \in BOOLEAN :
        /\ response' = chat_with_documents(kind, query_embedding, encode_ok)
        /\ UNCHANGED <<documents, document_chunks, committed, clock, uploads, failed, call, ret, requests, files, chunked, chat_model, db_connection, tables, exchanges>>

NextChat == Chat

SpecChat == InitChat /\ [][NextChat]_vars

(***************************************************************************)
(* chunk_text called again and again while the service handles an upload   *)
(* and searches.  A call is logged with its arguments, what it returned,   *)
(* and how many uploads and which request had been handled before it.      *)
(***************************************************************************)
MaxChunkCalls == 3
RepeatedArguments ==
    {[text |-> <<"a", " ", "a", " ", "a">>, chunk_size |-> 2, overlap |-> 1],
     [text |-> <<"a", "\n", " ", "a">>, chunk_size |-> 1, overlap |-> 0]}

ChunkAgain ==
    /\ Len(chunked) < MaxChunkCalls
    /\ \E a \in RepeatedArguments :
           chunked' = Append(chunked,
                             [text |-> a.text, chunk_size |-> a.chunk_size,
                              overlap |-> a.overlap,
                              returned |-> chunk_text(a.text, a.chunk_size, a.overlap),
                              uploads |-> uploads, after |-> response.op])
    /\ UNCHANGED <<call, ret, documents, document_chunks, committed, clock, uploads, failed, response, requests, files, chat_model, db_connection, tables, exchanges>>

\* the first upload, of a supported file, with collaborators that do not fail
OneUpload ==
    /\ uploads = 0
    /\ \E x \in UploadInputs :
           /\ x.env.extract_ok /\ x.env.utf8 /\ x.env.embed_ok /\ x.env.fail_at = NoFailure
           /\ splitext(x.file.filename) \in supported_extensions
           /\ upload_document(x.file.filename, x.file.pages, x.env.extract_ok, x.env.utf8,
                              x.env.embed_ok, x.env.embeddings, x.env.fail_at,
                              x.env.auto_rollback)

NextRepeated == ChunkAgain \/ OneUpload \/ Search

SpecRepeated == Init /\ [][NextRepeated]_vars

(***************************************************************************)
(* Properties of the chunker                                               *)
(***************************************************************************)
Called == ret /= NotCalled
ValidConfiguration == call.chunk_size > call.overlap
Words == split(call.text)
Step == call.chunk_size - call.overlap
\* the window of the k-th chunk: word positions first..last, counted from 1
FirstWord(k) == (k - 1) * Step + 1
LastWord(k) == FirstWord(k) + Len(split(ret.chunks[k])) - 1
Shared(k) == IF LastWord(k) >= FirstWord(k + 1) THEN LastWord(k) - FirstWord(k + 1) + 1 ELSE 0

\* C7: with chunk_size > overlap >= 0, chunk_text returns one chunk per start index
\* 0, s, 2s, ... below len(words), s = chunk_size - overlap; the chunk of start i is
\* words[i : i + chunk_size] joined by single spaces; nothing else is returned.
C7_OneChunkPerStart ==
    (Called /\ ValidConfiguration) =>
        LET n == Len(Words)
            count == (n + Step - 1) \div Step
        IN  /\ ret.raised = "none"
            /\ Len(ret.chunks) = count
            /\ \A k \in 1..count :
                   ret.chunks[k] =
                       join(SubSeq(Words, FirstWord(k),
                                   Least(FirstWord(k) + call.chunk_size - 1, n)))

C7_Witness ==
    /\ Called /\ ValidConfiguration
    /\ call.overlap > 0
    /\ Len(ret.chunks) >= 3
    /\ Len(split(ret.chunks[1])) = call.chunk_size
    /\ Len(split(ret.chunks[Len(ret.chunks)])) < call.chunk_size

\* C8: every word position lies in some chunk, and consecutive chunks share exactly
\* overlap words, except that the last pair may share fewer.
C8_CoverageAndOverlap ==
    (Called /\ ValidConfiguration) =>
        LET m == Len(ret.chunks)
        IN  /\ UNION {FirstWord(k)..LastWord(k) : k \in 1..m} = 1..Len(Words)
            /\ \A k \in 1..(m - 1) :
                   IF k = m - 1 THEN Shared(k) <= call.overlap
                   ELSE Shared(k) = call.overlap

\* C9: a non-empty text of at most chunk_size words gives exactly one chunk, the
\* whole text.
C9_ShortTextOneChunk ==
    (Called /\ ValidConfiguration /\ Len(Words) >= 1 /\ Len(Words) <= call.chunk_size) =>
        ret.chunks = <<join(Words)>>

\* C10: a call with overlap >= chunk_size ends in an error; it returns no chunk
\* list, empty or not.
C10_InvalidConfigurationRaises ==
    (Called /\ ~ValidConfiguration) => ret.raised /= "none"

(***************************************************************************)
(* Properties of the store and the retriever                               *)
(***************************************************************************)
RowsOf(id) == {j \in DOMAIN document_chunks : document_chunks[j].document_id = id}
\* the documents a reader can observe: listed, or joined to a chunk by the search
ObservedDocuments ==
    {list_documents[i] : i \in DOMAIN list_documents}
    \cup {documents[i] : i \in {k \in DOMAIN documents : RowsOf(documents[k].id) /= {}}}

\* C1: every document a reader can observe has total_chunks equal to the number of
\* its document_chunks rows.
C1_TotalChunksIsRowCount ==
    \A d \in ObservedDocuments : d.total_chunks = Cardinality(RowsOf(d.id))

\* C2: once save_document_to_db has failed for an upload, no reader sees a document
\* or a chunk that this upload wrote.
C2_FailedBatchDiscarded ==
    /\ \A i \in DOMAIN list_documents : list_documents[i].by \notin failed
    /\ \A i \in DOMAIN joined_rows : document_chunks[joined_rows[i].rowid].by \notin failed

\* C3: after a successful upload whose chunker produced N chunks, the stored
\* chunk_index values of the document are 0..N-1, each once, total_chunks is N and
\* the response reports chunks_created = N.
C3_IndexContiguity ==
    (response.op = "upload" /\ response.success) =>
        LET N == response.produced
            rows == RowsOf(response.document_id)
            docs == {i \in DOMAIN documents : documents[i].id = response.document_id}
        IN  /\ \A x \in 0..(N - 1) :
                   Cardinality({j \in rows : document_chunks[j].chunk_index = x}) = 1
            /\ \A j \in rows : document_chunks[j].chunk_index \in 0..(N - 1)
            /\ Cardinality(docs) = 1
            /\ \A i \in docs : documents[i].total_chunks = N
            /\ response.chunks_created = N

C3_Witness ==
    /\ response.op = "upload" /\ response.success
    /\ response.produced >= 2
    /\ Len(documents) >= 2

\* C4: a search returns exactly min(top_k, corpus size) chunks.
C4_TopKBounded ==
    response.op = "search" =>
        Len(response.results) = Least(response.top_k, Len(document_chunks))

SimilarityOf(rowid) ==
    cosine_similarity(response.query, frombuffer(document_chunks[rowid].embedding))
Returned == {response.results[i].rowid : i \in DOMAIN response.results}
Matching == {j \in DOMAIN document_chunks : frombuffer(document_chunks[j].embedding) = response.query}

\* C5: the returned list is ordered by non-increasing similarity and holds the
\* top_k highest-scoring chunks of the corpus; a query vector equal to the embedding
\* of exactly one stored chunk gets that chunk first, with similarity 1.0, and the
\* best of the remaining chunks second.
C5_RankedBySimilarity ==
    response.op = "search" =>
        LET r == response.results
        IN  /\ \A i, j \in DOMAIN r : i < j => ~SimLess(r[i].similarity, r[j].similarity)
            /\ Len(r) = Least(response.top_k, Len(document_chunks))
            /\ \A i \in DOMAIN r : SimEq(r[i].similarity, SimilarityOf(r[i].rowid))
            /\ \A i \in DOMAIN r : \A j \in DOMAIN document_chunks \ Returned :
                   ~SimLess(r[i].similarity, SimilarityOf(j))
            /\ Cardinality(Matching) = 1 =>
                   /\ r /= <<>>
                   /\ r[1].rowid \in Matching
                   /\ SimIsOne(r[1].similarity)
                   /\ (response.top_k >= 2 /\ Len(document_chunks) >= 2) =>
                          /\ Len(r) >= 2
                          /\ \A j \in DOMAIN document_chunks \ Matching :
                                 ~SimLess(r[2].similarity, SimilarityOf(j))

\* x is stored before y: lower chunk_index in the same document, earlier upload otherwise
DocumentPosition(id) == CHOOSE i \in DOMAIN documents : documents[i].id = id
StoredBefore(x, y) ==
    LET cx == document_chunks[x]
        cy == document_chunks[y]
    IN  IF cx.document_id = cy.document_id
        THEN cx.chunk_index < cy.chunk_index
        ELSE /\ DocumentPosition(cx.document_id) < DocumentPosition(cy.document_id)
             /\ documents[DocumentPosition(cx.document_id)].upload_date
                    <= documents[DocumentPosition(cy.document_id)].upload_date

\* C6: returned chunks of equal similarity are in chunk_index order within a
\* document and in upload order across documents, so the order of a result is
\* fixed by the store and the query.
C6_TiesInStoredOrder ==
    response.op = "search" =>
        LET r == response.results
        IN  \A i, j \in DOMAIN r :
                (i < j /\ SimEq(r[i].similarity, r[j].similarity)) =>
                    StoredBefore(r[i].rowid, r[j].rowid)

C6_Witness ==
    /\ response.op = "search"
    /\ Len(response.results) >= 2
    /\ SimEq(response.results[1].similarity, response.results[2].similarity)
    /\ response.results[1].document_id /= response.results[2].document_id
    /\ Len(document_chunks) >= 3

(***************************************************************************)
(* Properties of overlapping uploads                                       *)
(***************************************************************************)
RowsBy(by) == {j \in DOMAIN document_chunks : document_chunks[j].by = by}
Finished(by) == requests[by].state /= "reading"
BatchSize(by) == Len(batch(requests[by].filename, requests[by].pages, requests[by].utf8))
\* upload by is stored in full: its document row and its chunks 0..n-1, nothing else
StoredInFull(by) ==
    /\ requests[by].state = "stored"
    /\ Cardinality({i \in DOMAIN documents : documents[i].by = by}) = 1
    /\ Cardinality(RowsBy(by)) = BatchSize(by)
    /\ {document_chunks[j].chunk_index : j \in RowsBy(by)} = 0..(BatchSize(by) - 1)
\* upload by was rejected and left no row
RejectedClean(by) ==
    /\ requests[by].state = "rejected"
    /\ RowsBy(by) = {}
    /\ \A i \in DOMAIN documents : documents[i].by /= by
BothStored(a, b) ==
    /\ Cardinality(RowsOf(requests[a].document_id)) = BatchSize(a) + BatchSize(b)
    /\ \A x \in {a, b} :
           {document_chunks[j].chunk_index : j \in RowsBy(x)} = 0..(BatchSize(x) - 1)

\* C11: two uploads that got the same document id end either with the chunks of
\* both batches stored, or with exactly one of them stored in full and the other
\* rejected without a row.
C11_SameIdUploadsSerialized ==
    \A a, b \in DOMAIN requests :
        (/\ a < b
         /\ requests[a].document_id = requests[b].document_id
         /\ requests[a].document_id /= NoDocument
         /\ Finished(a) /\ Finished(b)) =>
            \/ BothStored(a, b)
            \/ StoredInFull(a) /\ RejectedClean(b)
            \/ StoredInFull(b) /\ RejectedClean(a)

(***************************************************************************)
(* Properties of the upload handler                                        *)
(***************************************************************************)
UploadStep == uploads' = uploads + 1 /\ response'.op = "upload"
DuplicateError == "Database save failed: UNIQUE constraint failed"
\* the upload of this step called save_document_to_db
SaveCalled ==
    \/ response'.success
    \/ response'.detail \in {DuplicateError, "Database save failed"}
UniqueIds ==
    \A i, j \in DOMAIN documents : documents[i].id = documents[j].id => i = j
DuplicateRejected ==
    (/\ UploadStep
     /\ SaveCalled
     /\ \E i \in DOMAIN documents : documents[i].id = response'.document_id) =>
        /\ ~response'.success
        /\ response'.detail = DuplicateError
        /\ documents' = documents
        /\ document_chunks' = document_chunks

\* C12: saving a document whose id the store already holds fails with the
\* duplicate error and changes no row of either table; no two stored documents
\* share an id.
C12_DuplicateIdRejected == []UniqueIds /\ [][DuplicateRejected]_vars

C12_Witness ==
    /\ response.op = "upload"
    /\ ~response.success
    /\ response.detail = DuplicateError
    /\ RowsOf(response.document_id) /= {}

(***************************************************************************)
(* Properties of the searches under failures and odd vectors               *)
(***************************************************************************)
\* the call got as far as ranking: nothing made it return the first chunks at once
Searched ==
    /\ Called
    /\ call.embedder /\ call.query_given
    /\ call.chunks /= <<>> /\ call.embeddings /= <<>>
LengthMismatch ==
    \E i \in DOMAIN call.embeddings : Len(call.embeddings[i]) /= Len(call.query_embedding)

\* C13: a search over embeddings of another length than the query embedding ends
\* in an error for the caller, not in a returned list.
C13_LengthMismatchFails ==
    (Searched /\ call.encode_ok /\ LengthMismatch) => ret.raised /= "none"

ZeroNorm(v) == dot(v, v) = 0
HasZeroNorm ==
    \/ ZeroNorm(call.query_embedding)
    \/ \E i \in DOMAIN call.embeddings : ZeroNorm(call.embeddings[i])
\* the similarity with a zero norm counted as 0
ForcedZero(i) == cosine_similarity(call.query_embedding, call.embeddings[i])

\* C14: with a zero-norm embedding the search does not fail and drops no chunk:
\* every chunk is scored, a zero norm scores exactly 0, and the returned list is
\* the top_k chunks in non-increasing order of these scores.
C14_ZeroNormScoresZero ==
    (/\ Searched /\ call.encode_ok /\ ~LengthMismatch
     /\ Len(call.embeddings) = Len(call.chunks)
     /\ HasZeroNorm) =>
        LET r == ret.returned
        IN  /\ ret.raised = "none" /\ ~ret.printed
            /\ Len(r) = Least(call.top_k, Len(call.chunks))
            /\ \A i \in DOMAIN r :
                   /\ r[i].scored
                   /\ ~IsNaN(r[i].similarity_score)
                   /\ SimEq(r[i].similarity_score, ForcedZero(r[i].chunk))
            /\ \A i, j \in DOMAIN r :
                   i < j => ~SimLess(ForcedZero(r[i].chunk), ForcedZero(r[j].chunk))
            /\ \A i \in DOMAIN r :
                   \A c \in DOMAIN call.chunks \ {r[k].chunk : k \in DOMAIN r} :
                       ~SimLess(ForcedZero(r[i].chunk), ForcedZero(c))

\* C15: a query during which the embedder or the store failed is answered with
\* an error, never with a normal response.
C15_QueryFailureReported ==
    (response.op = "search" /\ response.logged) => response.status /= 200

\* the tables and what is committed of them
StoreUnchanged ==
    /\ documents' = documents
    /\ document_chunks' = document_chunks
    /\ committed' = committed
FailedWith(details) ==
    /\ UploadStep
    /\ ~response'.success
    /\ response'.detail \in details
StoreKeptOnEarlyFailure ==
    FailedWith({"Unsupported file type", "processing failed", "Embedding creation failed"})
        => StoreUnchanged

\* C16: an upload that fails on the file type, in the extraction or in the
\* embedder is answered with a failure and leaves both tables as they were.
C16_EarlyFailureWritesNothing == [][StoreKeptOnEarlyFailure]_vars

C16_Witness ==
    /\ response.op = "upload"
    /\ ~response.success
    /\ response.detail = "Embedding creation failed"
    /\ document_chunks /= <<>>

EmptyDocumentRejected ==
    FailedWith({"No text content found", "Could not create chunks"}) =>
        /\ StoreUnchanged
        /\ \A i \in DOMAIN list_documents' : list_documents'[i].by /= uploads'
NoEmptyDocument == \A i \in DOMAIN documents : documents[i].total_chunks >= 1

\* C17: an upload whose extraction gives no page, or whose pages give no chunk,
\* fails and stores nothing, so that list_documents does not show it; every stored
\* document has total_chunks >= 1.
C17_EmptyDocumentStoresNothing == []NoEmptyDocument /\ [][EmptyDocumentRejected]_vars

C17_Witness ==
    /\ response.op = "upload"
    /\ ~response.success
    /\ response.detail = "Could not create chunks"
    /\ documents /= <<>>

(***************************************************************************)
(* Properties of the chunk loop                                            *)
(***************************************************************************)
\* the windows of a page of n words: one every 450 words, 500 words long
WindowCount(n) == (n + (DefaultChunkSize - DefaultOverlap) - 1) \div (DefaultChunkSize - DefaultOverlap)
WindowFirst(c) == (c - 1) * (DefaultChunkSize - DefaultOverlap)
WindowLast(c, n) == Least(WindowFirst(c) + DefaultChunkSize, n) - 1
PageChunks(p) ==
    [c \in 1..WindowCount(call.word_counts[p]) |->
        words_text(p, WindowFirst(c), WindowLast(c, call.word_counts[p]))]

\* C18: the chunk list of a document is the concatenation, in page order, of the
\* chunks of each page, each chunk holding words of its own page only; pages of
\* 1200, 100 and 100 words give the word ranges [0,500), [450,950), [900,1200) of
\* page 1 and one chunk for each other page, 5 chunks in all.
C18_PagesChunkedIndependently ==
    Called =>
        /\ ret.all_chunks = flatten([p \in DOMAIN call.word_counts |-> PageChunks(p)])
        /\ ret.chunk_page_numbers =
               flatten([p \in DOMAIN call.word_counts |->
                           [c \in 1..WindowCount(call.word_counts[p]) |-> p]])
        /\ call.word_counts = <<1200, 100, 100>> =>
               /\ Len(ret.all_chunks) = 5
               /\ ret.all_chunks[1] = words_text(1, 0, 499)
               /\ ret.all_chunks[2] = words_text(1, 450, 949)
               /\ ret.all_chunks[3] = words_text(1, 900, 1199)
               /\ ret.all_chunks[4] = words_text(2, 0, 99)
               /\ ret.all_chunks[5] = words_text(3, 0, 99)

C18_Witness ==
    /\ Called
    /\ call.word_counts = <<1200, 100, 100>>
    /\ Len(ret.all_chunks) = 5

(***************************************************************************)
(* Order of the chunks from extraction to storage                          *)
(***************************************************************************)
\* the rows a step has added to document_chunks
AddedChunks == SubSeq(document_chunks', Len(document_chunks) + 1, Len(document_chunks'))

StoredInOrder ==
    (UploadStep /\ response'.success) =>
        /\ Len(response'.chunk_page_numbers) = Len(response'.all_chunks)
        /\ Len(AddedChunks) = Len(response'.all_chunks)
        /\ \A i \in DOMAIN response'.all_chunks :
               \E k \in DOMAIN AddedChunks :
                   /\ AddedChunks[k].chunk_index = i - 1
                   /\ \A m \in DOMAIN AddedChunks : AddedChunks[m].chunk_index = i - 1 => m = k
                   /\ AddedChunks[k].document_id = response'.document_id
                   /\ AddedChunks[k].content = response'.all_chunks[i]
                   /\ AddedChunks[k].page_number = response'.chunk_page_numbers[i]
                   /\ frombuffer(AddedChunks[k].embedding) = response'.embeddings[i]

PagesAscend ==
    \A a, b \in DOMAIN document_chunks :
        (/\ document_chunks[a].document_id = document_chunks[b].document_id
         /\ document_chunks[a].chunk_index <= document_chunks[b].chunk_index)
            => document_chunks[a].page_number <= document_chunks[b].page_number

\* C19: a successful upload stores, under chunk_index i, the content, the page
\* number and the embedding of the i-th chunk it produced, the list of page numbers
\* is as long as the list of chunks, and among the rows of one document
\* page_number never decreases as chunk_index grows.
C19_ChunkOrderPreserved == []PagesAscend /\ [][StoredInOrder]_vars

C19_Witness ==
    /\ response.op = "upload"
    /\ response.success
    /\ Len(response.all_chunks) = 2
    /\ response.all_chunks[1] # response.all_chunks[2]
    /\ response.embeddings[1] # response.embeddings[2]
    /\ response.chunk_page_numbers = <<1, 2>>
    /\ \E k \in DOMAIN document_chunks :
           /\ document_chunks[k].document_id = response.document_id
           /\ document_chunks[k].chunk_index = 1
           /\ document_chunks[k].content = response.all_chunks[2]
           /\ document_chunks[k].page_number = 2

(***************************************************************************)
(* The list of documents                                                   *)
(***************************************************************************)
\* a step of list_documents
ListStep ==
    /\ response'.op = "list"
    /\ UNCHANGED <<documents, document_chunks, committed, clock, uploads>>

ListedOnce ==
    \A i \in 1..committed.documents :
        Cardinality({k \in DOMAIN response'.documents :
                        response'.documents[k].id = documents[i].id}) = 1

\* by numbers the upload requests in the order they were handled
MostRecentFirst ==
    \A i, j \in DOMAIN response'.documents :
        i < j => response'.documents[i].by > response'.documents[j].by

\* C20: list_documents returns every committed document exactly once, the most
\* recently uploaded document first, also when several documents were uploaded
\* within the same second.
C20_ListMostRecentFirst == [][ListStep => (ListedOnce /\ MostRecentFirst)]_vars

(***************************************************************************)
(* Lifecycle of a stored document                                          *)
(***************************************************************************)
\* the rows of the two tables that a step has neither changed nor removed
RowsKept ==
    /\ Len(documents') >= Len(documents)
    /\ SubSeq(documents', 1, Len(documents)) = documents
    /\ Len(document_chunks') >= Len(document_chunks)
    /\ SubSeq(document_chunks', 1, Len(document_chunks)) = document_chunks

\* a successful upload adds its own document and nothing else; no other step adds one
CreatedOnce ==
    IF UploadStep /\ response'.success
    THEN /\ Len(documents') = Len(documents) + 1
         /\ documents'[Len(documents')].id = response'.document_id
         /\ \A k \in DOMAIN AddedChunks : AddedChunks[k].document_id = response'.document_id
    ELSE /\ Len(documents') = Len(documents)
         /\ Len(document_chunks') = Len(document_chunks)

\* C21: a document is created exactly once per successful upload and by nothing
\* else, and no step changes or removes a row of a stored document or of its chunks.
C21_CreatedOnceNeverMutated == [][RowsKept /\ CreatedOnce]_vars

(***************************************************************************)
(* Properties of the composed answer                                       *)
(***************************************************************************)
Answered == response.op = "chat"

\* C22: the number of sections an answer names is the number of chunks whose
\* text is in its context, for 1 to top_k retrieved chunks.
C22_CitedCountIsUsedCount ==
    (Answered /\ response.relevant_chunks /= <<>>) =>
        response.response.sections = Len(response.response.context_parts)

\* the stored chunk a retrieved chunk was read from
FromStore(chunk) ==
    /\ chunk.rowid \in DOMAIN document_chunks
    /\ document_chunks[chunk.rowid].content = chunk.content
    /\ document_chunks[chunk.rowid].page_number = chunk.page_number
    /\ document_chunks[chunk.rowid].document_id = chunk.document_id
    /\ \E d \in DOMAIN documents :
           documents[d].id = chunk.document_id /\ documents[d].filename = chunk.filename

Attributes(part, chunk) ==
    /\ part.filename = chunk.filename
    /\ part.page_number = chunk.page_number
    /\ part.excerpt = SubSeq(chunk.content, 1, Least(300, Len(chunk.content)))

\* C23: every chunk the answer attributes, and every entry of relevant_chunks and
\* of document_sources, comes from a chunk the search returned; the answer holds
\* the first 3 of them at most, in rank order; with no chunk returned the answer is
\* the fixed message, the confidence 0.0 and the source list empty.
C23_AnswerFromRetrievedOnly ==
    Answered =>
        LET found == response.relevant_chunks
            answer == response.response
        IN  /\ \A i \in DOMAIN found : FromStore(found[i])
            /\ \A i, j \in DOMAIN found :
                   i < j => ~SimLess(found[i].similarity, found[j].similarity)
            /\ response.document_sources = {found[i].filename : i \in DOMAIN found}
            /\ IF found = <<>>
               THEN /\ answer = [text |-> "no information"]
                    /\ response.confidence.value = "0.0"
                    /\ response.document_sources = {}
               ELSE /\ Len(answer.context_parts) = Least(3, Len(found))
                    /\ \A i \in DOMAIN answer.context_parts :
                           Attributes(answer.context_parts[i], found[i])

C23_Witness ==
    /\ Answered
    /\ Len(response.relevant_chunks) = 5
    /\ Len(response.response.context_parts) = 3
    /\ Cardinality(response.document_sources) = 2
    /\ response.relevant_chunks[3].page_number /= response.relevant_chunks[5].page_number

(***************************************************************************)
(* Purity of the chunker                                                   *)
(***************************************************************************)
SameArguments(a, b) ==
    a.text = b.text /\ a.chunk_size = b.chunk_size /\ a.overlap = b.overlap

C25_ChunkContentAndSize ==
    \A k \in DOMAIN document_chunks :
        /\ strip(document_chunks[k].content) /= <<>>
        /\ document_chunks[k].chunk_size = Len(document_chunks[k].content)

C25_Witness ==
    \E k \in DOMAIN document_chunks :
        /\ k <= committed.document_chunks
        /\ document_chunks[k].content = <<"a", " ", "a">>
        /\ document_chunks[k].chunk_size = 3

(***************************************************************************)
(* Properties of the in-process chat models                                *)
(***************************************************************************)
\* the cosine of the query and the embedding of loaded chunk i, as a fraction
Score(i) == cosine_similarity(call.query_embedding, chat_model.current_document_embeddings[i])
AboveFloor(i) == Score(i).num * 100 > 9 * Score(i).den
NothingLoaded ==
    \/ chat_model.embedder = "None"
    \/ chat_model.current_document_chunks = <<>>
    \/ chat_model.current_document_embeddings = <<>>

\* C26: _get_relevant_context returns those of the max_chunks highest-scoring
\* loaded chunks whose similarity is above 0.3, highest first, ranked 1..n without
\* gaps, as copies; and the empty list when no embedder, no chunks or no embeddings
\* are loaded.
C26_RelevantContextAboveFloor ==
    (Called /\ ~ret.printed) =>
        LET r == ret.returned
            loaded == DOMAIN chat_model.current_document_embeddings
        IN  /\ NothingLoaded => r = <<>>
            /\ ~NothingLoaded =>
                /\ Len(r) <= call.max_chunks
                /\ \A k \in DOMAIN r :
                       /\ r[k].rank = k
                       /\ r[k].source \in loaded
                       /\ AboveFloor(r[k].source)
                       /\ r[k].similarity_score = Score(r[k].source)
                       /\ r[k].content = chat_model.current_document_chunks[r[k].source].content
                /\ \A k, m \in DOMAIN r :
                       k < m => /\ r[k].source /= r[m].source
                                /\ ~SimLess(Score(r[k].source), Score(r[m].source))
                /\ \A i \in loaded \ {r[k].source : k \in DOMAIN r} :
                       \/ ~AboveFloor(i)
                       \/ /\ Len(r) = call.max_chunks
                          /\ \A k \in DOMAIN r : ~SimLess(Score(r[k].source), Score(i))

\* the conversation history is the end of what was recorded, in the same order
IsSuffix(s, t) == Len(s) <= Len(t) /\ s = SubSeq(t, Len(t) - Len(s) + 1, Len(t))
HistoryBounded ==
    /\ Len(chat_model.conversation_history) <= 10
    /\ IsSuffix(chat_model.conversation_history, exchanges)
HistoryReturnedRecent ==
    call'.op = "get_conversation_history" =>
        /\ Len(ret') <= 5
        /\ IsSuffix(ret', chat_model.conversation_history)
        /\ Len(ret') = Least(5, Len(chat_model.conversation_history))
HistoryCleared ==
    call'.op = "clear_conversation_history" => chat_model'.conversation_history = <<>>
HistoryGrows ==
    (call'.op = "generate_response" /\ call'.ok) =>
        /\ chat_model'.conversation_history /= <<>>
        /\ chat_model'.conversation_history[Len(chat_model'.conversation_history)]
               = exchanges'[Len(exchanges')]

\* C27: the conversation history holds at most 10 exchanges, the most recent ones
\* in the order they happened; get_conversation_history returns the last 5 of them
\* at most; clearing leaves the history empty.
C27_HistoryBoundedAndRecent ==
    []HistoryBounded /\ [][HistoryReturnedRecent /\ HistoryCleared /\ HistoryGrows]_vars

C27_Witness ==
    /\ Len(exchanges) = 11
    /\ Len(chat_model.conversation_history) \in {8, 10}
    /\ chat_model.conversation_history[1].user = 11 - Len(chat_model.conversation_history) + 1
    /\ call.op = "get_conversation_history"
    /\ Len(ret) = 5
    /\ ret[1].user = 7

\* what a step of load_document_context leaves in the chat model
HoldsOnly(d) ==
    /\ chat_model'.current_document_chunks = d.chunks
    /\ chat_model'.current_document_metadata = d.metadata
    /\ chat_model'.current_document_embeddings =
           IF chat_model'.variant = "full" THEN d.embeddings ELSE <<>>

\* C28: after load_document_context the chat model holds the chunks, embeddings
\* and metadata of the newly loaded document only, and its conversation history
\* is empty.
C28_LoadReplacesContext ==
    [][call'.op = "load_document_context" =>
           /\ HoldsOnly(call'.document)
           /\ chat_model'.conversation_history = <<>>]_vars

\* the words a text shares with the query of the call, whatever their case
SharedWords(text) == word_set(call.query) \cap word_set(text)
Overlap(text) == Cardinality(SharedWords(text))
NoneShares ==
    \A i \in DOMAIN chat_model.current_document_chunks :
        SharedWords(chat_model.current_document_chunks[i]) = {}

\* C29: the lightweight _get_relevant_context returns at most max_chunks chunks,
\* the ones sharing more words with the query first, each of them sharing at least
\* one word with the query; and the empty string when no chunk is loaded or no
\* chunk shares a word with the query.
C29_KeywordContextShares ==
    Called =>
        /\ Len(ret.relevant_chunks) <= call.max_chunks
        /\ \A k, m \in DOMAIN ret.relevant_chunks :
               k < m => Overlap(ret.relevant_chunks[k]) >= Overlap(ret.relevant_chunks[m])
        /\ \A k \in DOMAIN ret.relevant_chunks : SharedWords(ret.relevant_chunks[k]) /= {}
        /\ NoneShares => ret.text = <<>>

BothTables == {"documents", "document_chunks"}
ConnectionReturned == call'.op = "get_database" /\ ret'.raised = "none"

\* C30: get_database of the serverless variant never returns a connection on
\* which the tables documents and document_chunks have not been created: after
\* an initialisation that failed partway a later call initialises again, and
\* once an initialisation has succeeded every call returns the same connection.
C30_DatabaseInitialised ==
    [][ConnectionReturned =>
           /\ ret'.returned /= NoConnection
           /\ ret'.returned = db_connection'
           /\ BothTables \subseteq tables'
           /\ (db_connection /= NoConnection /\ BothTables \subseteq tables)
                  => ret'.returned = db_connection]_vars

====
